---- MODULE Spec2Model ----
(***************************************************************************)
(* State-machine model of src/index.js: the chat/session orchestration of  *)
(* the document-analysis client (attachment queue, credential handling,    *)
(* handleSendMessage and its await points, streaming ingestion).           *)
(*                                                                         *)
(* Strings are modelled as sequences of tokens.  A token is one character  *)
(* (file names, typed input, keys) or one fixed phrase of the source       *)
(* (literal message texts); concatenation is \o.                           *)
(***************************************************************************)
EXTENDS Integers, Sequences, FiniteSets, TLC

VARIABLES
    localStorage,   \* durable value of 'gemini_api_key' (<<>> when absent)
    API_KEY,        \* in-memory credential (<<>> is the empty string)
    genAI,          \* API client: <<>> is null, <<k>> a client built with key k
    messages,       \* the transcript
    isLoading,      \* the loading flag
    uploadedFiles,  \* the attachment queue
    chatSession,    \* conversation context: <<>> is null, <<c>> a context
    activePrefix,   \* id of the active prompt prefix (<<>> when none)
    selectedModel,  \* modelSelect.value
    modalOpen,      \* the credential-entry modal is visible
    now,            \* the clock read by Date.now()
    turn,           \* the locals of the handleSendMessage call in flight
    last            \* how the last handler ended, when it ended early (else "")

vars == <<localStorage, API_KEY, genAI, messages, isLoading, uploadedFiles,
          chatSession, activePrefix, selectedModel, modalOpen, now, turn, last>>

(***************************************************************************)
(* Bounds of the model.                                                    *)
(***************************************************************************)
MaxMsgs == 5
MaxClock == 1
MaxChunks == 2

(***************************************************************************)
(* Strings.                                                                *)
(***************************************************************************)
IsSpace(c) == c = " "

RECURSIVE TrimStart(_)
TrimStart(s) ==
    IF s # <<>> /\ IsSpace(Head(s)) THEN TrimStart(Tail(s)) ELSE s

RECURSIVE TrimEnd(_)
TrimEnd(s) ==
    IF s # <<>> /\ IsSpace(s[Len(s)]) THEN TrimEnd(SubSeq(s, 1, Len(s) - 1)) ELSE s

\* String.prototype.trim
TrimNothing(s) == s

Trim(s) == TrimEnd(TrimStart(s))

\* String.prototype.toLowerCase, on the letters the model uses
LowerChar(c) ==
    CASE c = "P" -> "p"
      [] c = "D" -> "d"
      [] c = "F" -> "f"
      [] c = "T" -> "t"
      [] c = "X" -> "x"
      [] OTHER -> c

ToLowerCase(s) == [k \in 1..Len(s) |-> LowerChar(s[k])]

\* String.prototype.lastIndexOf for a one-character needle: 0-based, -1 if absent
LastIndexOf(s, c) ==
    LET hits == {k \in 1..Len(s) : s[k] = c}
    IN  IF hits = {} THEN -1
        ELSE (CHOOSE k \in hits : \A j \in hits : j <= k) - 1

\* String.prototype.substring(start): a negative start counts as 0
Substring(s, start) ==
    LET from == IF start < 0 THEN 0 ELSE start
    IN  SubSeq(s, from + 1, Len(s))

\* String.prototype.includes for a needle that is one phrase of the source
Includes(s, phrase) == \E k \in 1..Len(s) : s[k] = phrase

IsPrefixOf(s, t) == Len(s) <= Len(t) /\ SubSeq(t, 1, Len(s)) = s

RECURSIVE Join(_, _)
\* Array.prototype.join of a list of strings
Join(list, sep) ==
    IF list = <<>> THEN <<>>
    ELSE IF Len(list) = 1 THEN list[1]
    ELSE list[1] \o sep \o Join(Tail(list), sep)

(***************************************************************************)
(* Configuration and literal texts of the source.                          *)
(***************************************************************************)
MODEL_NAME == "gemini-2.5-flash"

validTypes ==
    { <<".", "p", "d", "f">>, <<".", "d", "o", "c", "x">>, <<".", "t", "x", "t">>,
      <<".", "h", "t", "m", "l">>, <<".", "h", "t", "m">>, <<".", "j", "p", "g">>,
      <<".", "j", "p", "e", "g">>, <<".", "p", "n", "g">>, <<".", "g", "i", "f">>,
      <<".", "b", "m", "p">>, <<".", "t", "i", "f", "f">> }

welcomeMessage == <<"Hello! I'm Analyst AI">>
setupRequired == <<"**Important Setup Required**">>
keyUpdatedText == <<"API key has been updated successfully!">>
apiKeyNotValid == "API key not valid"
apiKeyErrorText == <<"API key error: The API key you provided is not valid.">>
genericErrorText == <<"Sorry, an error occurred. Please try again.">>
reportTypeInstruction == <<"Before analyzing the content, please identify the company name">>

\* `Please analyze these ${n} files: ${names.join(', ')}.`
AnalyzeSentence(files) ==
    <<"Please analyze these ", ToString(Len(files)), " files: ">>
        \o Join([k \in 1..Len(files) |-> files[k].name], <<", ">>) \o <<".">>

(***************************************************************************)
(* Inputs the environment can supply.                                      *)
(***************************************************************************)
\* file names: a.pdf, a.PDF, b.txt, r.exe, pdf, c.pdf.exe
NameAPdf == <<"a", ".", "p", "d", "f">>
NameAPdfUpper == <<"a", ".", "P", "D", "F">>
NameBTxt == <<"b", ".", "t", "x", "t">>
NameExe == <<"r", ".", "e", "x", "e">>
NameNoDot == <<"p", "d", "f">>
NameTwoDots == <<"c", ".", "p", "d", "f", ".", "e", "x", "e">>

File(name, size) == [name |-> name, size |-> size]

\* every file the queue-only specification offers
AllFiles ==
    { File(n, z) : n \in {NameAPdf, NameAPdfUpper, NameBTxt, NameExe, NameNoDot, NameTwoDots},
                   z \in {1, 2} }

\* the files offered while turns run
TurnFiles == { File(NameAPdf, 1), File(NameBTxt, 1), File(NameExe, 1) }

\* what the user can have typed into the message box
InputValues == { <<>>, <<" ">>, <<"h", "i">>, <<" ", "h", "i", " ">> }

\* what the user can have typed into the key box
KeyInputs == { <<>>, <<" ">>, <<" ", "k">> }

\* the options of the model select
Models == { MODEL_NAME, "gemini-2.5-pro" }

\* the prompt library: ids and their contents
promptPrefixes == << [id |-> <<"esg">>, content |-> <<"Analyze all ESG metrics.">>] >>

PrefixIds == { <<>>, <<"esg">> }

(***************************************************************************)
(* The attachment queue.                                                   *)
(***************************************************************************)
\* file.name.substring(file.name.lastIndexOf('.'))
FileExtension(name) == Substring(name, LastIndexOf(name, "."))

IsValidTypeAlways(file) == TRUE

IsValidType(file) == ToLowerCase(FileExtension(file.name)) \in validTypes

\* uploadedFiles.findIndex(f => f.name === file.name && f.size === f.size): 0 if none
ExistingFileIndexNoDedup(queue, file) == 0

ExistingFileIndex(queue, file) ==
    LET hits == {k \in 1..Len(queue) :
                    queue[k].name = file.name /\ queue[k].size = queue[k].size}
    IN  IF hits = {} THEN 0 ELSE CHOOSE k \in hits : \A j \in hits : k <= j

\* the queue after processFileUpload(file)
QueueAfterUpload(queue, file) ==
    IF IsValidType(file)
    THEN IF ExistingFileIndex(queue, file) = 0 THEN Append(queue, file) ELSE queue
    ELSE queue

\* uploadedFiles.splice(index, 1), index 0-based
Splice(queue, index) ==
    [k \in 1..(Len(queue) - 1) |-> IF k <= index THEN queue[k] ELSE queue[k + 1]]

(***************************************************************************)
(* Messages and the transcript.                                            *)
(***************************************************************************)
\* tokenCounts is <<>> when the message has no such field
Message(id, role, text, tokenCounts) ==
    [id |-> id, role |-> role, text |-> text, tokenCounts |-> tokenCounts]

Counts(input, output, total) == [input |-> input, output |-> output, total |-> total]

\* messages.findIndex(msg => msg.id === id): 1-based, 0 if none
FindIndex(msgs, id) ==
    LET hits == {k \in 1..Len(msgs) : msgs[k].id = id}
    IN  IF hits = {} THEN 0 ELSE CHOOSE k \in hits : \A j \in hits : k <= j

\* initializeChat's transcript
Greeting(key, t) ==
    << Message(t, "model",
               IF key = <<>> THEN welcomeMessage \o setupRequired ELSE welcomeMessage,
               <<>>) >>

\* getActivePrefixContent
GetActivePrefixContent(prefixId) ==
    IF prefixId # <<>>
    THEN LET found == {k \in 1..Len(promptPrefixes) : promptPrefixes[k].id = prefixId}
         IN  IF found = {} THEN <<>>
             ELSE promptPrefixes[CHOOSE k \in found : \A j \in found : k <= j].content
    ELSE <<>>

(***************************************************************************)
(* Errors a turn can catch.  An error is the token string of its message.  *)
(***************************************************************************)
\* what the gateway answers when it refuses a request
ServerErrors == { <<apiKeyNotValid>>, <<"Quota exceeded">> }

nullClientError == <<"Cannot read properties of null (reading 'getGenerativeModel')">>
nullSessionError == <<"Cannot read properties of null (reading 'sendMessageStream')">>
undefinedMetaError == <<"Cannot read properties of undefined (reading 'mimeType')">>
startChatError == <<"startChat failed">>
failedToFetch == <<"Failed to fetch">>

InitUploadError(errorText) == <<"Failed to initialize upload: ">> \o errorText
noUploadUrlError == <<"Failed to get upload URL from headers">>
ParseUploadError(body) == <<"Failed to parse upload response: ">> \o body
StatusUploadError(body) == <<"Upload failed with status ">> \o body
networkUploadError == <<"Network error during upload">>

\* `Failed to upload ${file.name}: ${uploadError.message}`
UploadError(file, message) == <<"Failed to upload ">> \o file.name \o <<": ">> \o message

IsCredentialError(message) == Includes(message, apiKeyNotValid)

\* the text of the message the catch block appends
ErrorMessageNoPrefix(message) == message

ErrorMessage(message) ==
    IF message # <<>> /\ IsCredentialError(message) THEN apiKeyErrorText
    ELSE IF message # <<>> THEN <<"Error: ">> \o message
    ELSE genericErrorText

(***************************************************************************)
(* The handleSendMessage call in flight.  pc is the await it is suspended  *)
(* at; the fields after model are bookkeeping of the model that the        *)
(* program does not hold: what the call found at submission and what it    *)
(* has done since.                                                         *)
(***************************************************************************)
IdleTurn ==
    [ pc |-> "idle",            \* idle, uploadInit, uploadErrText, uploadXfer, count, open, stream
      responseId |-> 0,
      responseText |-> <<>>,
      contentParts |-> <<>>,
      uploadResults |-> <<>>,
      i |-> 0,                  \* 1-based position of the file being uploaded
      file |-> <<>>,            \* <<f>>: the file being uploaded
      model |-> <<>>,           \* <<m>>: the model handle of the call
      len0 |-> 0,               \* length of the transcript at submission
      files0 |-> <<>>,          \* the queue at submission
      text0 |-> <<>>,           \* the trimmed input at submission
      pushed |-> <<>>,          \* roles of the messages the call has appended
      phPos |-> 0,              \* position the placeholder was appended at, 0 once it is gone
      chunks |-> <<>>,          \* the chunks delivered so far
      finished |-> FALSE,       \* a chunk carried a finish reason
      reqs |-> <<>>,            \* gateway requests the call has issued
      interfered |-> FALSE,     \* another handler ran while the call was in flight
      outcome |-> "none",       \* none, ok, error
      error |-> <<>>,           \* the message of the error caught
      failedAt |-> "none" ]     \* the step that raised it: model, context, uploadInit,
                                \* uploadStatus, uploadXfer, open, text, stream

\* what another handler does to the bookkeeping
Touch(t) == IF t.pc = "idle" THEN IdleTurn ELSE [t EXCEPT !.interfered = TRUE]

\* a handler that replaces the transcript loses the placeholder's position
Replaced(t) == [Touch(t) EXCEPT !.phPos = 0]

\* the handler op ended early with result res ("" when it ran through)
Did(op, res) == IF res = "" THEN [op |-> "", res |-> ""] ELSE [op |-> op, res |-> res]

NoClient == <<>>
Client(key) == <<key>>
NoSession == <<>>
Session(model, key) == << [model |-> model, key |-> key] >>

(***************************************************************************)
(* Start-up: lines 9-32 and the initializeChat() call at line 257.         *)
(***************************************************************************)
Startup(stored, t) ==
    /\ API_KEY = stored
    /\ genAI = IF stored # <<>> THEN Client(stored) ELSE NoClient
    /\ messages = Greeting(stored, t)
    /\ isLoading = FALSE
    /\ uploadedFiles = <<>>
    /\ chatSession = NoSession
    /\ activePrefix = <<>>
    /\ selectedModel = MODEL_NAME
    /\ modalOpen = FALSE
    /\ turn = IdleTurn

Init ==
    /\ localStorage \in { <<>>, <<"k">> }
    /\ now = 0
    /\ Startup(localStorage, now)
    /\ last = Did("load", "")

(***************************************************************************)
(* Handlers of user actions.                                               *)
(***************************************************************************)
\* processFileUpload, as called by handleDrop for one dropped file
ProcessFileUpload(file) ==
    /\ uploadedFiles' = QueueAfterUpload(uploadedFiles, file)
    /\ last' = Did("processFileUpload",
                   IF ~IsValidType(file) THEN "alert"
                   ELSE IF ExistingFileIndex(uploadedFiles, file) = 0 THEN ""
                   ELSE "skipped")
    /\ turn' = Touch(turn)
    /\ UNCHANGED <<localStorage, API_KEY, genAI, messages, isLoading, chatSession,
                   activePrefix, selectedModel, modalOpen, now>>

\* removeFile(index), index 0-based
RemoveFile(index) ==
    /\ uploadedFiles' = IF index >= 0 /\ index < Len(uploadedFiles)
                        THEN Splice(uploadedFiles, index) ELSE uploadedFiles
    /\ last' = Did("removeFile", "")
    /\ turn' = Touch(turn)
    /\ UNCHANGED <<localStorage, API_KEY, genAI, messages, isLoading, chatSession,
                   activePrefix, selectedModel, modalOpen, now>>

RemoveAllFiles ==
    /\ uploadedFiles' = <<>>
    /\ last' = Did("removeAllFiles", "")
    /\ turn' = Touch(turn)
    /\ UNCHANGED <<localStorage, API_KEY, genAI, messages, isLoading, chatSession,
                   activePrefix, selectedModel, modalOpen, now>>

ResetSessionKeepsQueue ==
    /\ messages' = Greeting(API_KEY, now)
    /\ chatSession' = NoSession
    /\ last' = Did("resetSession", "")
    /\ turn' = Replaced(turn)
    /\ UNCHANGED <<localStorage, API_KEY, genAI, isLoading, uploadedFiles, activePrefix,
                   selectedModel, modalOpen, now>>

\* resetSession: clear, then removeAllFiles() and initializeChat()
ResetSession ==
    /\ messages' = Greeting(API_KEY, now)
    /\ chatSession' = NoSession
    /\ uploadedFiles' = <<>>
    /\ last' = Did("resetSession", "")
    /\ turn' = Replaced(turn)
    /\ UNCHANGED <<localStorage, API_KEY, genAI, isLoading, activePrefix, selectedModel,
                   modalOpen, now>>

SaveApiKeyKeepsSession(value) ==
    LET newApiKey == Trim(value)
    IN  IF newApiKey = <<>>
        THEN /\ last' = Did("saveApiKey", "alert")
             /\ turn' = Touch(turn)
             /\ UNCHANGED <<localStorage, API_KEY, genAI, messages, isLoading, uploadedFiles,
                            chatSession, activePrefix, selectedModel, modalOpen, now>>
        ELSE /\ localStorage' = newApiKey
             /\ API_KEY' = newApiKey
             /\ genAI' = Client(newApiKey)
             /\ modalOpen' = FALSE
             /\ messages' = Append(messages, Message(now, "model", keyUpdatedText, <<>>))
             /\ last' = Did("saveApiKey", "")
             /\ turn' = Touch(turn)
             /\ UNCHANGED <<isLoading, uploadedFiles, chatSession, activePrefix,
                            selectedModel, now>>

\* saveApiKey with apiKeyInput.value = value
SaveApiKey(value) ==
    LET newApiKey == Trim(value)
    IN  IF newApiKey = <<>>
        THEN /\ last' = Did("saveApiKey", "alert")
             /\ turn' = Touch(turn)
             /\ UNCHANGED <<localStorage, API_KEY, genAI, messages, isLoading, uploadedFiles,
                            chatSession, activePrefix, selectedModel, modalOpen, now>>
        ELSE /\ localStorage' = newApiKey
             /\ API_KEY' = newApiKey
             /\ genAI' = Client(newApiKey)
             /\ chatSession' = NoSession
             /\ modalOpen' = FALSE
             /\ messages' = Append(messages, Message(now, "model", keyUpdatedText, <<>>))
             /\ last' = Did("saveApiKey", "")
             /\ turn' = Touch(turn)
             /\ UNCHANGED <<isLoading, uploadedFiles, activePrefix, selectedModel, now>>

OpenApiKeyModal ==
    /\ ~modalOpen
    /\ modalOpen' = TRUE
    /\ last' = Did("openApiKeyModal", "")
    /\ turn' = Touch(turn)
    /\ UNCHANGED <<localStorage, API_KEY, genAI, messages, isLoading, uploadedFiles,
                   chatSession, activePrefix, selectedModel, now>>

CloseApiKeyModal ==
    /\ modalOpen
    /\ modalOpen' = FALSE
    /\ last' = Did("closeApiKeyModal", "")
    /\ turn' = Touch(turn)
    /\ UNCHANGED <<localStorage, API_KEY, genAI, messages, isLoading, uploadedFiles,
                   chatSession, activePrefix, selectedModel, now>>

\* setActivePrefix: the prompt chosen in the select becomes the active one
SetActivePrefix(prefixId) ==
    /\ activePrefix' = prefixId
    /\ turn' = Touch(turn)
    /\ last' = Did("setActivePrefix", "")
    /\ UNCHANGED <<localStorage, API_KEY, genAI, messages, isLoading, uploadedFiles,
                   chatSession, selectedModel, modalOpen, now>>

\* the change listener of the model select, lines 128-139: the select already
\* shows the new option; confirm() answers confirmed
ModelChange(model, confirmed) ==
    /\ model # selectedModel
    /\ selectedModel' = model
    /\ IF confirmed
       THEN /\ messages' = Greeting(API_KEY, now)
            /\ chatSession' = NoSession
            /\ uploadedFiles' = <<>>
            /\ turn' = Replaced(turn)
       ELSE /\ turn' = Touch(turn)
            /\ UNCHANGED <<messages, chatSession, uploadedFiles>>
    /\ last' = Did("modelChange", "")
    /\ UNCHANGED <<localStorage, API_KEY, genAI, isLoading, activePrefix, modalOpen, now>>

\* Date.now() moves on
Tick ==
    /\ now < MaxClock
    /\ now' = now + 1
    /\ UNCHANGED <<localStorage, API_KEY, genAI, messages, isLoading, uploadedFiles,
                   chatSession, activePrefix, selectedModel, modalOpen, turn, last>>

(***************************************************************************)
(* handleSendMessage.  Each action is the code between two awaits.         *)
(***************************************************************************)
\* what a step of the call assigns; the rest of the state is left alone
Commit(msgs, loading, files, session, key, client, t) ==
    /\ messages' = msgs
    /\ isLoading' = loading
    /\ uploadedFiles' = files
    /\ chatSession' = session
    /\ API_KEY' = key
    /\ genAI' = client
    /\ turn' = t
    /\ last' = Did("handleSendMessage", "")
    /\ UNCHANGED <<localStorage, activePrefix, selectedModel, modalOpen, now>>

\* the call goes on to its next await
Continue(msgs, t) ==
    Commit(msgs, isLoading, uploadedFiles, chatSession, API_KEY, genAI, t)

\* the catch and finally blocks, lines 1293-1317, for an error with this message
FailKeepsLoading(msgs, session, t, message, at) ==
    Commit(Append(msgs, Message(now + 1, "model", ErrorMessage(message), <<>>)),
           isLoading, uploadedFiles, session, API_KEY, genAI,
           [t EXCEPT !.pc = "idle", !.outcome = "error", !.error = message,
                     !.failedAt = at, !.pushed = Append(t.pushed, "model")])

FailSilently(msgs, session, t, message, at) ==
    Commit(msgs, FALSE, uploadedFiles, session, API_KEY, genAI,
           [t EXCEPT !.pc = "idle", !.outcome = "error", !.error = message, !.failedAt = at])

FailKeepsKey(msgs, session, t, message, at) ==
    Commit(Append(msgs, Message(now + 1, "model", ErrorMessage(message), <<>>)),
           FALSE, uploadedFiles, session, API_KEY, genAI,
           [t EXCEPT !.pc = "idle", !.outcome = "error", !.error = message,
                     !.failedAt = at, !.pushed = Append(t.pushed, "model")])

FailKeepsClient(msgs, session, t, message, at) ==
    LET credential == message # <<>> /\ IsCredentialError(message)
    IN  Commit(Append(msgs, Message(now + 1, "model", ErrorMessage(message), <<>>)),
               FALSE,
               uploadedFiles,
               IF credential THEN NoSession ELSE session,
               IF credential THEN <<>> ELSE API_KEY,
               genAI,
               [t EXCEPT !.pc = "idle", !.outcome = "error", !.error = message,
                         !.failedAt = at, !.pushed = Append(t.pushed, "model")])

Fail(msgs, session, t, message, at) ==
    LET credential == message # <<>> /\ IsCredentialError(message)
    IN  Commit(Append(msgs, Message(now + 1, "model", ErrorMessage(message), <<>>)),
               FALSE,
               uploadedFiles,
               IF credential THEN NoSession ELSE session,
               IF credential THEN <<>> ELSE API_KEY,
               IF credential THEN NoClient ELSE genAI,
               [t EXCEPT !.pc = "idle", !.outcome = "error", !.error = message,
                         !.failedAt = at, !.pushed = Append(t.pushed, "model")])

\* the guard of line 1093
NothingToSend(userMessage, files) == userMessage = <<>> /\ files = <<>>

\* the guard of line 1096
NoCredentialNever(key) == FALSE

NoCredential(key) == key = <<>>

\* lines 1109-1114
FinalMessage(prefixContent, userMessage, files) ==
    IF prefixContent # <<>> /\ userMessage # <<>>
    THEN prefixContent \o <<"\n\n">> \o userMessage
    ELSE IF prefixContent # <<>> /\ files # <<>>
    THEN prefixContent \o <<"\n\n">> \o AnalyzeSentence(files)
    ELSE userMessage

UserMessageTextPrefixed(userMessage, files) ==
    IF userMessage # <<>>
    THEN FinalMessage(GetActivePrefixContent(activePrefix), userMessage, files)
    ELSE AnalyzeSentence(files)

\* lines 1117-1129: the text of the user message shown
UserMessageText(userMessage, files) ==
    IF userMessage # <<>> THEN userMessage ELSE AnalyzeSentence(files)

TextPart(text) == [text |-> text, fileData |-> <<>>]
FilePart(meta) == [text |-> <<>>, fileData |-> meta]

\* lines 1184-1193
TextParts(finalMessage, files) ==
    IF finalMessage # <<>>
    THEN << TextPart(IF files # <<>> THEN finalMessage \o <<"\n\n">> \o reportTypeInstruction
                     ELSE finalMessage) >>
    ELSE <<>>

\* uploadFileToGemini(file) up to its first await, line 996-1015
StartUpload(msgs, session, t, k) ==
    LET file == uploadedFiles[k]
        t1 == [t EXCEPT !.i = k, !.file = <<file>>]
    IN  IF API_KEY = <<>>
        THEN Fail(msgs, session, t1,
                  UploadError(file, <<"API Key is required for file upload">>), "uploadInit")
        ELSE Commit(msgs, TRUE, uploadedFiles, session, API_KEY, genAI,
                    [t1 EXCEPT !.pc = "uploadInit", !.reqs = Append(t.reqs, "uploadInit")])

\* lines 1223-1229: the token-count request is issued and awaited
StartCount(msgs, session, t) ==
    Commit(msgs, TRUE, uploadedFiles, session, API_KEY, genAI,
           [t EXCEPT !.pc = "count", !.reqs = Append(t.reqs, "countTokens")])

\* handleSendMessage with messageInput.value = value, up to its first await
HandleSendMessage(value) ==
    LET userMessage == Trim(value)
    IN  IF NothingToSend(userMessage, uploadedFiles)
           THEN /\ last' = Did("handleSendMessage", "noop")
                /\ turn' = Touch(turn)
                /\ UNCHANGED <<localStorage, API_KEY, genAI, messages, isLoading, uploadedFiles,
                               chatSession, activePrefix, selectedModel, modalOpen, now>>
           ELSE IF NoCredential(API_KEY)
           THEN /\ modalOpen' = TRUE
                /\ last' = Did("handleSendMessage", "prompt")
                /\ turn' = Touch(turn)
                /\ UNCHANGED <<localStorage, API_KEY, genAI, messages, isLoading, uploadedFiles,
                               chatSession, activePrefix, selectedModel, now>>
           ELSE LET prefixContent == GetActivePrefixContent(activePrefix)
                    finalMessage == FinalMessage(prefixContent, userMessage, uploadedFiles)
                    msgs1 == Append(messages,
                                    Message(now, "user",
                                            UserMessageText(userMessage, uploadedFiles), <<>>))
                    t1 == [IdleTurn EXCEPT !.len0 = Len(messages), !.files0 = uploadedFiles,
                                           !.text0 = userMessage, !.pushed = <<"user">>]
                IN  IF genAI = NoClient
                    THEN Fail(msgs1, chatSession, t1, nullClientError, "model")
                    ELSE \/ /\ chatSession = NoSession
                            /\ Fail(msgs1, chatSession, t1, startChatError, "context")
                         \/ LET session == IF chatSession = NoSession
                                              THEN Session(selectedModel, genAI[1])
                                              ELSE chatSession
                                   responseId == now + 1
                                   msgs2 == Append(msgs1, Message(responseId, "model", <<>>,
                                                                  <<Counts(0, 0, 0)>>))
                                   t2 == [t1 EXCEPT !.model = <<[model |-> selectedModel,
                                                                 key |-> genAI[1]]>>,
                                                    !.responseId = responseId,
                                                    !.pushed = <<"user", "model">>,
                                                    !.phPos = Len(msgs2),
                                                    !.contentParts =
                                                        TextParts(finalMessage, uploadedFiles)]
                               IN  IF uploadedFiles # <<>>
                                   THEN StartUpload(msgs2, session, t2, 1)
                                   ELSE StartCount(msgs2, session, t2)

\* await fetch(...) of line 1005 settles
UploadInitResponse(answer) ==
    /\ turn.pc = "uploadInit"
    /\ LET file == turn.file[1]
       IN  CASE answer = "ok" ->
                    \* line 1026-1054: the transfer is started
                    Continue(messages, [turn EXCEPT !.pc = "uploadXfer",
                                                    !.reqs = Append(turn.reqs, "uploadXfer")])
             [] answer = "notOk" ->
                    \* line 1018: await initResponse.text()
                    Continue(messages, [turn EXCEPT !.pc = "uploadErrText"])
             [] answer = "noUrl" ->
                    Fail(messages, chatSession, turn, UploadError(file, noUploadUrlError),
                         "uploadInit")
             [] OTHER ->
                    Fail(messages, chatSession, turn, UploadError(file, failedToFetch),
                         "uploadInit")

UploadInitErrorTextGoesOn(errorText) ==
    /\ turn.pc = "uploadErrText"
    /\ StartCount(messages, chatSession, turn)

\* await initResponse.text() settles with the body of the refusal
UploadInitErrorText(errorText) ==
    /\ turn.pc = "uploadErrText"
    /\ Fail(messages, chatSession, turn,
            UploadError(turn.file[1], InitUploadError(errorText)), "uploadStatus")

FilePartsReversed(results) ==
    [k \in 1..Len(results) |-> FilePart(results[Len(results) - k + 1])]

\* lines 1213-1220: one file part per upload result; undefined metadata throws
FileParts(results) == [k \in 1..Len(results) |-> FilePart(results[k])]

\* the promise of line 1026 settles
UploadTransferResponse(answer) ==
    /\ turn.pc = "uploadXfer"
    /\ LET file == turn.file[1]
       IN  CASE answer \in {"ok", "okNoFile"} ->
                    LET meta == IF answer = "ok" THEN <<file>> ELSE <<>>
                        t1 == [turn EXCEPT !.uploadResults = Append(turn.uploadResults, meta)]
                    IN  IF turn.i + 1 <= Len(uploadedFiles)
                        THEN StartUpload(messages, chatSession, t1, turn.i + 1)
                        ELSE IF \E k \in 1..Len(t1.uploadResults) : t1.uploadResults[k] = <<>>
                        THEN Fail(messages, chatSession, t1, undefinedMetaError, "uploadXfer")
                        ELSE StartCount(messages, chatSession,
                                        [t1 EXCEPT !.contentParts =
                                            turn.contentParts \o FileParts(t1.uploadResults)])
             [] answer = "parse" ->
                    Fail(messages, chatSession, turn,
                         UploadError(file, ParseUploadError(<<"<html>">>)), "uploadXfer")
             [] answer = "status" ->
                    Fail(messages, chatSession, turn,
                         UploadError(file, StatusUploadError(<<"503">>)), "uploadXfer")
             [] OTHER ->
                    Fail(messages, chatSession, turn,
                         UploadError(file, networkUploadError), "uploadXfer")

\* lines 1235-1240: the placeholder's input-token field; a target without
\* tokenCounts raises a TypeError that the catch of line 1241 swallows
WithInputTokens(msgs, id, count) ==
    LET index == FindIndex(msgs, id)
    IN  IF index # 0 /\ msgs[index].tokenCounts # <<>>
        THEN [msgs EXCEPT ![index].tokenCounts =
                  << [msgs[index].tokenCounts[1] EXCEPT !.input = count] >>]
        ELSE msgs

CountTokensResponseFails(answer) ==
    /\ turn.pc = "count"
    /\ IF answer # "ok"
       THEN Fail(messages, chatSession, turn, <<"countTokens failed">>, "count")
       ELSE Continue(WithInputTokens(messages, turn.responseId, 7),
                     [turn EXCEPT !.pc = "open",
                                  !.reqs = Append(turn.reqs, "sendMessageStream")])

\* await model.countTokens(...) settles, then sendMessageStream is called
CountTokensResponse(answer) ==
    /\ turn.pc = "count"
    /\ LET msgs == IF answer = "ok" THEN WithInputTokens(messages, turn.responseId, 7)
                   ELSE messages
       IN  IF chatSession = NoSession
           THEN Fail(msgs, chatSession, turn, nullSessionError, "open")
           ELSE Continue(msgs, [turn EXCEPT !.pc = "open",
                                            !.reqs = Append(turn.reqs, "sendMessageStream")])

\* await chatSession.sendMessageStream(contentParts) settles
StreamOpenResponse(answer) ==
    /\ turn.pc = "open"
    /\ IF answer = <<>>
       THEN Continue(messages, [turn EXCEPT !.pc = "stream", !.responseText = <<>>])
       ELSE Fail(messages, chatSession, turn, answer, "open")

\* the chunks a stream can deliver
Chunk(text, finishReason, usage) ==
    [text |-> text, finishReason |-> finishReason, usageMetadata |-> usage]

Chunks ==
    { Chunk(<<"x">>, "", <<>>),
      Chunk(<<"y">>, "STOP", <<Counts(7, 3, 10)>>),
      Chunk(<<>>, "SAFETY", <<>>),
      Chunk(<<"y">>, "MAX_TOKENS", <<Counts(7, 3, 10)>>),
      Chunk(<<>>, "RECITATION", <<>>) }

\* lines 1255-1268
Annotation(finishReason) ==
    IF finishReason # "" /\ finishReason # "STOP"
    THEN IF finishReason = "SAFETY"
         THEN <<"\n\n**[Generation stopped due to Safety Filters]**">>
         ELSE IF finishReason = "MAX_TOKENS"
         THEN <<"\n\n**[Generation stopped due to Max Token Limit]**">>
         ELSE <<"\n\n**[Generation stopped: ", finishReason, "]**">>
    ELSE <<>>

\* lines 1251-1268: responseText after one more chunk
AccumulateOverwrites(responseText, chunk) == chunk.text \o Annotation(chunk.finishReason)

Accumulate(responseText, chunk) ==
    responseText \o chunk.text \o Annotation(chunk.finishReason)

\* lines 1271-1285
WithResponse(msgs, id, responseText, chunk) ==
    LET index == FindIndex(msgs, id)
    IN  IF index # 0
        THEN [msgs EXCEPT ![index].text = responseText,
                          ![index].tokenCounts =
                              IF chunk.usageMetadata # <<>> THEN chunk.usageMetadata ELSE @]
        ELSE msgs

\* one iteration of the for await loop
StreamChunk(chunk) ==
    /\ turn.pc = "stream"
    /\ ~turn.finished
    /\ LET responseText == Accumulate(turn.responseText, chunk)
       IN  Continue(WithResponse(messages, turn.responseId, responseText, chunk),
                    [turn EXCEPT !.responseText = responseText,
                                 !.chunks = Append(turn.chunks, chunk),
                                 !.finished = chunk.finishReason # ""])

\* the finish reasons for which the SDK's chunk.text() raises instead of
\* returning the text of the chunk
BadFinishReasons == { "SAFETY", "RECITATION" }

BlockedError(finishReason) ==
    <<"[GoogleGenerativeAI Error]: Candidate was blocked due to ", finishReason>>

\* line 1251: chunk.text() raises for a chunk whose candidate was blocked
ChunkTextError(chunk) ==
    /\ turn.pc = "stream"
    /\ ~turn.finished
    /\ chunk.finishReason \in BadFinishReasons
    /\ Fail(messages, chatSession,
            [turn EXCEPT !.chunks = Append(turn.chunks, chunk)],
            BlockedError(chunk.finishReason), "text")

\* the stream raises instead of delivering a chunk
StreamError(message) ==
    /\ turn.pc = "stream"
    /\ ~turn.finished
    /\ Fail(messages, chatSession, turn, message, "stream")

\* lines 1288-1291: the queue after a completed stream
QueueAfterTurnKept(files) == files

QueueAfterTurn(files) == IF Len(files) > 0 THEN <<>> ELSE files

\* the stream ends: lines 1288-1291 and the finally block
StreamEnd ==
    /\ turn.pc = "stream"
    /\ Commit(messages, FALSE, QueueAfterTurn(uploadedFiles), chatSession, API_KEY, genAI,
              [turn EXCEPT !.pc = "idle", !.outcome = "ok"])

(***************************************************************************)
(* The page is reloaded: the script runs again from the durable storage.   *)
(***************************************************************************)
Restart ==
    /\ API_KEY' = localStorage
    /\ genAI' = IF localStorage # <<>> THEN Client(localStorage) ELSE NoClient
    /\ messages' = Greeting(localStorage, now)
    /\ isLoading' = FALSE
    /\ uploadedFiles' = <<>>
    /\ chatSession' = NoSession
    /\ activePrefix' = <<>>
    /\ selectedModel' = MODEL_NAME
    /\ modalOpen' = FALSE
    /\ turn' = IdleTurn
    /\ last' = Did("load", "")
    /\ UNCHANGED <<localStorage, now>>

(***************************************************************************)
(* A session.  The bounds of the model are applied here, not in the        *)
(* handlers: a turn starts only while the transcript has room for its      *)
(* three messages, a stream delivers at most MaxChunks chunks, the clock   *)
(* stops at MaxClock.  The user's handlers are scheduled between turns:    *)
(* render() disables the message box, the send and the attach button while *)
(* isLoading (lines 1472-1475).                                            *)
(***************************************************************************)
Quiet == turn.pc = "idle"

Network ==
    \/ \E answer \in {"ok", "notOk", "noUrl", "reject"} : UploadInitResponse(answer)
    \/ \E errorText \in ServerErrors : UploadInitErrorText(errorText)
    \/ \E answer \in {"ok", "okNoFile", "parse", "status", "error"} :
            UploadTransferResponse(answer)
    \/ \E answer \in {"ok", "reject"} : CountTokensResponse(answer)
    \/ \E answer \in {<<>>} \cup ServerErrors : StreamOpenResponse(answer)
    \/ \E chunk \in Chunks : Len(turn.chunks) < MaxChunks /\ StreamChunk(chunk)
    \/ \E chunk \in Chunks : Len(turn.chunks) < MaxChunks /\ ChunkTextError(chunk)
    \/ \E message \in ServerErrors : StreamError(message)
    \/ StreamEnd

User ==
    \/ \E value \in InputValues : Len(messages) + 3 <= MaxMsgs /\ HandleSendMessage(value)
    \/ \E file \in TurnFiles : ProcessFileUpload(file)
    \/ \E index \in 0..1 : RemoveFile(index)
    \/ RemoveAllFiles
    \/ ResetSession
    \/ \E value \in KeyInputs : Len(messages) + 1 <= MaxMsgs /\ SaveApiKey(value)
    \/ OpenApiKeyModal
    \/ CloseApiKeyModal

Next == (Quiet /\ User) \/ Network \/ Tick \/ Restart

Spec == Init /\ [][Next]_vars

(***************************************************************************)
(* The attachment queue alone.                                             *)
(***************************************************************************)
NextQueue ==
    \/ \E file \in AllFiles : ProcessFileUpload(file)
    \/ \E index \in -1..3 : RemoveFile(index)
    \/ RemoveAllFiles

SpecQueue == Init /\ [][NextQueue]_vars

(***************************************************************************)
(* Turns one after another on the same transcript, without attachments,    *)
(* with or without an active prompt:                                       *)
(* a second turn starts while the transcript has room for its user message *)
(* and its placeholder.                                                    *)
(***************************************************************************)
NextTurns ==
    \/ \E value \in {<<"h", "i">>} :
            Quiet /\ Len(messages) + 2 <= MaxMsgs /\ HandleSendMessage(value)
    \/ \E answer \in {"ok", "reject"} : CountTokensResponse(answer)
    \/ \E answer \in {<<>>, <<"Quota exceeded">>} : StreamOpenResponse(answer)
    \/ \E chunk \in Chunks : Len(turn.chunks) < MaxChunks /\ StreamChunk(chunk)
    \/ \E message \in {<<"Quota exceeded">>} : StreamError(message)
    \/ StreamEnd
    \/ \E prefixId \in PrefixIds : Quiet /\ SetActivePrefix(prefixId)
    \/ Tick

SpecTurns == Init /\ [][NextTurns]_vars

(***************************************************************************)
(* The conversation context over several turns: prompts, models, keys and  *)
(* attachments change between turns, the clock stands still.  A turn       *)
(* starts while the transcript has room for its user message and its       *)
(* placeholder.                                                            *)
(***************************************************************************)
SessionFiles == { File(NameAPdf, 1), File(NameBTxt, 1) }

UserSession ==
    \/ \E value \in {<<>>, <<"h", "i">>, <<" ", "h", "i", " ">>} :
            Len(messages) + 2 <= MaxMsgs /\ HandleSendMessage(value)
    \/ \E file \in SessionFiles : ProcessFileUpload(file)
    \/ \E prefixId \in PrefixIds : SetActivePrefix(prefixId)
    \/ \E model \in Models, confirmed \in BOOLEAN : ModelChange(model, confirmed)
    \/ \E value \in {<<" ", "k">>} : Len(messages) + 1 <= MaxMsgs /\ SaveApiKey(value)
    \/ ResetSession

NetworkSession ==
    \/ \E answer \in {"ok", "reject"} : UploadInitResponse(answer)
    \/ \E answer \in {"ok", "error"} : UploadTransferResponse(answer)
    \/ \E answer \in {"ok", "reject"} : CountTokensResponse(answer)
    \/ \E answer \in {<<>>} \cup ServerErrors : StreamOpenResponse(answer)
    \/ \E chunk \in {Chunk(<<"x">>, "", <<>>)} :
            Len(turn.chunks) < MaxChunks /\ StreamChunk(chunk)
    \/ StreamEnd

NextSession == (Quiet /\ UserSession) \/ NetworkSession

SpecSession == Init /\ [][NextSession]_vars

(***************************************************************************)
(* Handlers racing with a turn.  render() disables the message box, the    *)
(* send and the attach button while isLoading (lines 1472-1475), so a      *)
(* submit comes only while they are enabled; the drop zone, the remove     *)
(* buttons, the reset button, the key form and the model select are never  *)
(* disabled and their handlers run at any await of the turn.  The clock    *)
(* stands still.                                                           *)
(***************************************************************************)
ControlsDisabledNever == FALSE

ControlsDisabled == isLoading

UserRace ==
    \/ \E value \in {<<>>, <<"h", "i">>} :
            ~ControlsDisabled /\ Len(messages) + 3 <= MaxMsgs /\ HandleSendMessage(value)
    \/ \E file \in SessionFiles : ProcessFileUpload(file)
    \/ \E index \in 0..1 : RemoveFile(index)
    \/ RemoveAllFiles
    \/ ResetSession
    \/ \E value \in {<<" ", "k">>} : Len(messages) + 1 <= MaxMsgs /\ SaveApiKey(value)
    \/ \E model \in Models, confirmed \in BOOLEAN : ModelChange(model, confirmed)

NetworkRace ==
    \/ \E answer \in {"ok", "reject"} : UploadInitResponse(answer)
    \/ \E answer \in {"ok", "error"} : UploadTransferResponse(answer)
    \/ \E answer \in {"ok"} : CountTokensResponse(answer)
    \/ \E answer \in {<<>>, <<"Quota exceeded">>} : StreamOpenResponse(answer)
    \/ \E chunk \in {Chunk(<<"x">>, "", <<>>)} :
            Len(turn.chunks) < MaxChunks /\ StreamChunk(chunk)
    \/ \E message \in {<<"Quota exceeded">>} : StreamError(message)
    \/ StreamEnd

NextRace == UserRace \/ NetworkRace

SpecRace == Init /\ [][NextRace]_vars

(***************************************************************************)
(* Every gateway request eventually answers or errors.                     *)
(***************************************************************************)
FairSpec == Spec /\ WF_vars(Network)

(***************************************************************************)
(* Claims.                                                                 *)
(***************************************************************************)
InFlight == turn.pc # "idle"

\* the message the call appended k-th (1: the user message, 2: the placeholder, 3: the error)
Appended(k) == messages[turn.len0 + k]

IsBlank(value) == \A k \in 1..Len(value) : value[k] = " "

\* s occurs in t as a contiguous run
Contains(t, s) == \E k \in 0..(Len(t) - Len(s)) : SubSeq(t, k + 1, k + Len(s)) = s

AllowList ==
    { <<"p", "d", "f">>, <<"d", "o", "c", "x">>, <<"t", "x", "t">>, <<"h", "t", "m", "l">>,
      <<"h", "t", "m">>, <<"j", "p", "g">>, <<"j", "p", "e", "g">>, <<"p", "n", "g">>,
      <<"g", "i", "f">>, <<"b", "m", "p">>, <<"t", "i", "f", "f">> }

\* the text after the last '.' of the name, lower-cased, is on the allow-list
HasAllowedExtension(name) ==
    \E k \in 1..Len(name) :
        /\ name[k] = "."
        /\ \A j \in (k + 1)..Len(name) : name[j] # "."
        /\ ToLowerCase(SubSeq(name, k + 1, Len(name))) \in AllowList

\* C1: the attachment queue never holds two entries with the same (name, size)
\* pair, nor an entry whose extension is outside the allow-list.
C1_QueueInvariant ==
    /\ \A a, b \in 1..Len(uploadedFiles) :
           a # b => ~(uploadedFiles[a].name = uploadedFiles[b].name
                      /\ uploadedFiles[a].size = uploadedFiles[b].size)
    /\ \A a \in 1..Len(uploadedFiles) : HasAllowedExtension(uploadedFiles[a].name)

\* a file was offered again while the queue held three accepted files
C1_Witness ==
    /\ last = Did("processFileUpload", "skipped")
    /\ Len(uploadedFiles) = 3

RefusedUpload == turn.outcome = "error" /\ turn.failedAt = "uploadStatus"

NothingHappened ==
    /\ UNCHANGED <<messages, isLoading, uploadedFiles, chatSession, API_KEY, genAI,
                   localStorage>>
    /\ ~InFlight'
    /\ turn'.reqs = <<>>

\* C4: a submit with empty or whitespace-only text and an empty queue changes
\* neither the transcript, isLoading, the queue nor the conversation context and
\* issues no request, with or without a credential.
C4_EmptySubmit ==
    [][\A value \in InputValues :
          (IsBlank(value) /\ uploadedFiles = <<>> /\ HandleSendMessage(value))
              => (NothingHappened /\ modalOpen' = modalOpen)]_vars

\* whitespace was submitted with a credential present and nothing queued
C4_Witness ==
    /\ last = Did("handleSendMessage", "noop")
    /\ API_KEY # <<>>
    /\ Len(messages) = 1

\* C5 as stated: every submit made while no credential is present opens the
\* credential prompt, whatever the text and the queue contain.
C5_Original ==
    (last.op = "handleSendMessage" /\ API_KEY = <<>>) => modalOpen

\* C5 as amended: a submit made while no credential is present issues no request
\* and leaves the transcript, the queue, isLoading and the context unchanged; it
\* opens the credential prompt when there is text or a queued file, and does
\* nothing at all when the text is blank and the queue empty.
C5_NoCredential ==
    [][\A value \in InputValues :
          (API_KEY = <<>> /\ HandleSendMessage(value))
              => /\ NothingHappened
                 /\ modalOpen' = (modalOpen \/ ~(IsBlank(value) /\ uploadedFiles = <<>>))]_vars

\* a submit with a queued file and no credential opened the prompt
C5_Witness ==
    /\ last = Did("handleSendMessage", "prompt")
    /\ modalOpen
    /\ uploadedFiles # <<>>
    /\ API_KEY = <<>>

\* C6: every turn that passes the submit guards eventually ends with isLoading
\* false, whatever step fails, when every gateway request eventually answers or
\* errors; isLoading is true for as long as the turn is in flight.
C6_LoadingEnds ==
    /\ [](InFlight => isLoading)
    /\ (InFlight ~> (~InFlight /\ ~isLoading))

\* a turn failed at a stream chunk after one chunk and the loading flag is cleared
C6_Witness ==
    /\ turn.outcome = "error"
    /\ turn.failedAt = "stream"
    /\ Len(turn.chunks) = 1
    /\ ~isLoading

\* C7: within one turn the placeholder's text after a step has its text before
\* the step as a prefix, so it never gets shorter.
C7_StreamingMonotonic ==
    [][(InFlight /\ turn.phPos # 0 /\ turn'.phPos = turn.phPos)
          => IsPrefixOf(messages[turn.phPos].text, messages'[turn.phPos].text)]_vars

\* two non-empty chunks have been applied to the placeholder
C7_Witness ==
    /\ turn.pc = "stream"
    /\ Len(turn.chunks) = 2
    /\ turn.chunks[1].text # <<>> /\ turn.chunks[2].text # <<>>
    /\ messages[turn.phPos].text = turn.chunks[1].text \o turn.chunks[2].text

RECURSIVE ConcatText(_)
ConcatText(chunks) ==
    IF chunks = <<>> THEN <<>> ELSE Head(chunks).text \o ConcatText(Tail(chunks))

\* C8: in a turn submitted with text T, no attachment and no active prefix, whose
\* stream finishes normally, the transcript gains a user message with text T and
\* then a model message whose text, after every chunk, is the concatenation of
\* the chunks delivered so far, in order.
C8_ChunksInOrder ==
    ( /\ turn.pc = "stream" \/ turn.outcome = "ok"
      /\ turn.text0 # <<>> /\ turn.files0 = <<>> /\ activePrefix = <<>>
      /\ \A k \in 1..Len(turn.chunks) : turn.chunks[k].finishReason \in {"", "STOP"} )
    => /\ Appended(1).role = "user" /\ Appended(1).text = turn.text0
       /\ Appended(2).role = "model"
       /\ Appended(2).text = ConcatText(turn.chunks)

\* C9: a turn that fails after the guards appends a model-role message carrying
\* the description of the error.
C9_ErrorSurfaces ==
    turn.outcome = "error" =>
        LET m == messages[Len(messages)]
        IN  /\ Len(messages) = turn.len0 + Len(turn.pushed)
            /\ turn.pushed[Len(turn.pushed)] = "model"
            /\ m.role = "model"
            /\ m.text # <<>>
            /\ \/ m.text = <<"Error: ">> \o turn.error
               \/ m.text = apiKeyErrorText /\ Includes(turn.error, "API key not valid")
               \/ m.text = genericErrorText /\ turn.error = <<>>

\* the transfer of an attachment failed and the error is on the transcript
C9_Witness ==
    /\ turn.outcome = "error"
    /\ turn.failedAt = "uploadXfer"
    /\ Contains(messages[Len(messages)].text, networkUploadError)

InvalidCredentialFound ==
    turn.outcome = "error" /\ Includes(turn.error, "API key not valid")

\* C10 as stated: a credential-invalidity error invalidates the in-memory key and
\* the durable copy read at start-up, together with the client and the context.
C10_Original ==
    InvalidCredentialFound =>
        /\ API_KEY = <<>>
        /\ localStorage = <<>>
        /\ genAI = NoClient
        /\ chatSession = NoSession

\* C10 as amended: a credential-invalidity error empties the in-memory key, the
\* client and the context, so that the next submit of this page session opens
\* the credential prompt; the durable copy is kept as it was, and a restart
\* loads it again.
C10_InvalidCredential ==
    InvalidCredentialFound =>
        /\ API_KEY = <<>>
        /\ genAI = NoClient
        /\ chatSession = NoSession
        /\ localStorage = turn.model[1].key
        /\ localStorage # <<>>

\* opening the stream was refused for an invalid key
C10_Witness ==
    /\ InvalidCredentialFound
    /\ turn.failedAt = "open"
    /\ API_KEY = <<>>

\* a step that appended the confirmation of a saved key
KeySaved ==
    /\ Len(messages') = Len(messages) + 1
    /\ messages'[Len(messages')].text = keyUpdatedText

\* C11: saving a non-empty key empties the conversation context, leaves every
\* message already in the transcript as it was (it appends one confirmation
\* message) and leaves the attachment queue unchanged.
C11_CredentialChange ==
    [][KeySaved =>
          /\ chatSession' = NoSession
          /\ API_KEY' # <<>>
          /\ SubSeq(messages', 1, Len(messages)) = messages
          /\ messages'[Len(messages')].role = "model"
          /\ uploadedFiles' = uploadedFiles]_vars

\* a key was saved after a streamed answer, with a file queued
C11_Witness ==
    /\ Len(messages) = 4
    /\ messages[2].role = "user"
    /\ messages[3].text = <<"x">>
    /\ messages[4].text = keyUpdatedText
    /\ chatSession = NoSession
    /\ uploadedFiles # <<>>

\* a step that changed the option shown by the model select
ModelChanged == selectedModel' # selectedModel

\* a step that issued the request opening the response stream
StreamRequested == turn'.pc = "open" /\ turn.pc # "open"

\* C12: every change of the selected model, confirmed or cancelled, empties the
\* conversation context and leaves the transcript and the attachment queue as
\* they were, so that the context a turn sends on was created for the model
\* selected at that time.
C12_ModelChange ==
    [][/\ ModelChanged =>
            /\ chatSession' = NoSession
            /\ messages' = messages
            /\ uploadedFiles' = uploadedFiles
       /\ StreamRequested => chatSession'[1].model = selectedModel']_vars

\* C13: resetSession, invoked while no turn is in flight, leaves the transcript
\* equal to exactly one greeting message of role model, the attachment queue
\* empty and the conversation context empty, whatever the state before.
C13_ResetSession ==
    [][(Quiet /\ ResetSession) =>
          /\ Len(messages') = 1
          /\ messages'[1].role = "model"
          /\ IsPrefixOf(welcomeMessage, messages'[1].text)
          /\ uploadedFiles' = <<>>
          /\ chatSession' = NoSession]_vars

\* the session was reset after a turn had lost its key to a credential error
C13_Witness ==
    /\ Len(messages) = 1
    /\ messages[1].role = "model"
    /\ Contains(messages[1].text, setupRequired)
    /\ API_KEY = <<>> /\ localStorage # <<>>
    /\ selectedModel = MODEL_NAME
    /\ uploadedFiles = <<>>
    /\ chatSession = NoSession

\* the offered files whose extension is outside the allow-list
DisallowedFiles == { file \in TurnFiles : ~HasAllowedExtension(file.name) }

\* C14: adding a file whose extension is outside the allow-list is rejected
\* before queuing: the queue, the transcript, isLoading and the context are
\* unchanged, a validation message is shown and no request is issued.
C14_RejectedFile ==
    [][\A file \in DisallowedFiles :
          ProcessFileUpload(file)
              => (NothingHappened /\ last' = Did("processFileUpload", "alert"))]_vars

\* a file was rejected while another was queued and a context existed
C14_Witness ==
    /\ last = Did("processFileUpload", "alert")
    /\ uploadedFiles # <<>>
    /\ chatSession # NoSession
    /\ Len(messages) >= 3

\* a step in which a turn ended in its catch block
TurnFailed == turn'.outcome = "error" /\ (InFlight \/ Len(messages') > Len(messages))

\* a step in which a turn began: it appended its user message
TurnBegan ==
    /\ ~InFlight
    /\ Len(messages') > Len(messages)
    /\ messages'[Len(messages) + 1].role = "user"

\* the context changes only by being created by a turn that finds none or by
\* being emptied by one of the four events; a failure that is not about the
\* credential keeps it; a turn that finds a context keeps it
ContextLifecycle ==
    /\ chatSession' # chatSession =>
          \/ /\ chatSession = NoSession
             /\ TurnBegan
             /\ chatSession' = Session(selectedModel, API_KEY)
          \/ /\ chatSession' = NoSession
             /\ \/ KeySaved
                \/ ModelChanged
                \/ ResetSession
                \/ TurnFailed /\ Includes(turn'.error, apiKeyNotValid)
    /\ (TurnFailed /\ ~Includes(turn'.error, apiKeyNotValid)) => chatSession' = chatSession
    /\ (TurnBegan /\ chatSession # NoSession) => chatSession' = chatSession

\* C15: a turn creates a conversation context only when none exists; every later
\* turn reuses it until a credential change, a model change, resetSession or a
\* credential-invalidity error empties it; a turn that fails for another reason
\* leaves the context in place.
C15_ContextLifecycle ==
    [][/\ ContextLifecycle
       /\ (KeySaved \/ ModelChanged \/ ResetSession) => chatSession' = NoSession]_vars

Requested(name) == \E k \in 1..Len(turn.reqs) : turn.reqs[k] = name

\* C17: the token-count request does not block the turn: the response stream is
\* opened without waiting for the count to resolve, so while the count request
\* is outstanding the stream request has been issued as well.
C17_CountDoesNotBlock ==
    turn.pc = "count" => Requested("sendMessageStream")

\* the turn has built its content parts
Composed == InFlight /\ turn.phPos # 0

\* the text the request of the turn carries (<<>>: it carries no text part)
OutgoingText ==
    IF turn.contentParts # <<>> /\ turn.contentParts[1].text # <<>>
    THEN turn.contentParts[1].text
    ELSE <<>>

\* the text with or without the report-type instruction that follows it when
\* files are attached
WithInstruction(text) ==
    IF turn.files0 # <<>>
    THEN { text, text \o <<"\n\n">> \o reportTypeInstruction }
    ELSE { text }

\* C18: the outgoing text of a turn is the prefix content, a blank line and the
\* user text when a prefix is active and the user text alone when none is; when
\* the user text is empty and files are queued it is the synthesized sentence
\* 'Please analyze these N files: ...', with or without an active prefix.
C18_OutgoingText ==
    Composed =>
        LET prefixContent == GetActivePrefixContent(activePrefix)
            sentence == AnalyzeSentence(turn.files0)
        IN  IF turn.text0 # <<>>
            THEN OutgoingText \in
                     WithInstruction(IF prefixContent # <<>>
                                     THEN prefixContent \o <<"\n\n">> \o turn.text0
                                     ELSE turn.text0)
            ELSE OutgoingText \in
                     WithInstruction(sentence)
                         \cup WithInstruction(prefixContent \o <<"\n\n">> \o sentence)

\* C19: the user message a turn appends never contains the active prefix
\* content: its text is exactly the trimmed input, or the synthesized sentence
\* when the input is empty and files are queued.
C19_UserMessageUnprefixed ==
    turn.pushed # <<>> =>
        LET text == Appended(1).text
            prefixContent == GetActivePrefixContent(activePrefix)
        IN  /\ Appended(1).role = "user"
            /\ text # <<>>
            /\ ~IsSpace(text[1]) /\ ~IsSpace(text[Len(text)])
            /\ text \in {<<"h", "i">>, AnalyzeSentence(turn.files0)}
            /\ (text = <<"h", "i">>) = (turn.text0 # <<>>)
            /\ prefixContent # <<>> => ~Contains(text, prefixContent)

\* a turn with an active prefix sent the prefix and shows the input alone
C19_Witness ==
    /\ Composed
    /\ activePrefix # <<>>
    /\ Contains(OutgoingText, GetActivePrefixContent(activePrefix))
    /\ Appended(1).text = <<"h", "i">>

\* the requests of m upload steps, an initiation and a transfer for each file in turn
UploadRequests(m) == [k \in 1..m |-> IF k % 2 = 1 THEN "uploadInit" ELSE "uploadXfer"]

\* the parts of the request that are not its leading text part
PartsAfterText ==
    IF OutgoingText # <<>> THEN Tail(turn.contentParts) ELSE turn.contentParts

AbnormalStop ==
    /\ turn.chunks # <<>>
    /\ turn.chunks[Len(turn.chunks)].finishReason \notin {"", "STOP"}

\* C21: when a chunk carries a terminal reason other than the normal stop, a
\* bracketed annotation is appended to the response text after everything
\* received, no error message is appended, and the turn ends as a successful
\* turn: queue cleared if it held files, isLoading false.
C21_AbnormalStopAnnotated ==
    AbnormalStop =>
        LET received == ConcatText(turn.chunks)
            text == Appended(2).text
        IN  /\ turn.outcome # "error"
            /\ Len(messages) = turn.len0 + 2
            /\ IsPrefixOf(received, text)
            /\ Len(text) > Len(received)
            /\ ~InFlight => /\ turn.outcome = "ok"
                            /\ ~isLoading
                            /\ (turn.files0 # <<>> => uploadedFiles = <<>>)

\* the offered files whose extension is on the allow-list
AllowedFiles == { file \in AllFiles : HasAllowedExtension(file.name) }

\* an entry with this name and this size is queued
Queued(file) ==
    \E k \in 1..Len(uploadedFiles) :
        uploadedFiles[k].name = file.name /\ uploadedFiles[k].size = file.size

\* C22: processFileUpload de-duplicates by the (name, size) pair: a file of an
\* accepted type is skipped exactly when an entry with the same name and the same
\* size is queued; a file with the name of a queued entry and another size is
\* added.
C22_DedupeByNameAndSize ==
    [][\A file \in AllowedFiles :
          ProcessFileUpload(file)
              => uploadedFiles' = IF Queued(file) THEN uploadedFiles
                                  ELSE Append(uploadedFiles, file)]_vars

\* a step in which a submit was accepted: it appended a user message
SubmitAccepted ==
    /\ Len(messages') > Len(messages)
    /\ messages'[Len(messages) + 1].role = "user"

\* C23: at most one turn is in flight at any time: no submit starts a turn
\* while isLoading is true, and isLoading is true exactly while the turn is in
\* flight, so no completion clears it while a turn is still running.
C23_OneTurnInFlight ==
    [][/\ SubmitAccepted => (~isLoading /\ ~InFlight)
       /\ InFlight' <=> isLoading']_vars

\* a turn is in flight after other handlers have run during it
C23_Witness ==
    /\ InFlight
    /\ isLoading
    /\ turn.interfered
    /\ turn.pc = "stream"

\* C24: the messages of the transcript have pairwise distinct ids, increasing in
\* transcript order, in every reachable state; the id used to look up the
\* placeholder during token counting and streaming matches no other message, so
\* the lookup lands on the placeholder of the turn in flight.
C24_UniqueIds ==
    /\ \A a, b \in 1..Len(messages) : a < b => messages[a].id < messages[b].id
    /\ (turn.pc \in {"count", "open", "stream"} /\ turn.phPos # 0)
           => FindIndex(messages, turn.responseId) = turn.phPos

\* every attachment queued at submission has been uploaded, in order
AllUploaded ==
    turn.uploadResults = [k \in 1..Len(turn.files0) |-> << turn.files0[k] >>]

\* the turn ended because an upload failed
UploadFailed ==
    /\ turn.outcome = "error"
    /\ turn.failedAt \in {"uploadInit", "uploadStatus", "uploadXfer"}

TranscriptReset == ResetSession \/ ModelChanged \/ Restart

\* C26: between resets the transcript is append-only: no step other than a reset
\* removes or reorders a message, the text of a user message never changes, and
\* the only text that changes is that of the placeholder of the turn in flight,
\* while it is streaming.
C26_AppendOnly ==
    [][~TranscriptReset =>
          /\ Len(messages') >= Len(messages)
          /\ \A k \in 1..Len(messages) :
                /\ messages'[k].id = messages[k].id
                /\ messages'[k].role = messages[k].role
                /\ messages'[k].text # messages[k].text =>
                      /\ messages[k].role = "model"
                      /\ turn.pc = "stream"
                      /\ k = turn.phPos]_vars

\* a step of a handler other than the submit handler
OtherUserAction ==
    \/ \E file \in SessionFiles : ProcessFileUpload(file)
    \/ \E index \in 0..1 : RemoveFile(index)
    \/ RemoveAllFiles
    \/ ResetSession
    \/ \E value \in {<<" ", "k">>} : SaveApiKey(value)
    \/ \E model \in Models, confirmed \in BOOLEAN : ModelChange(model, confirmed)

\* C27: while a turn is in flight no user action (adding or removing a file,
\* reset, saving a key, a model change) changes the attachment queue, the
\* transcript or the conversation context.
C27_LoadingGates ==
    [][(isLoading /\ OtherUserAction) =>
          UNCHANGED <<uploadedFiles, messages, chatSession>>]_vars

\* the files the turn has uploaded so far
UploadedFiles(t) ==
    { t.uploadResults[k][1] : k \in { j \in 1..Len(t.uploadResults) : t.uploadResults[j] # <<>> } }

QueuedFiles(files) == { files[k] : k \in 1..Len(files) }

\* C28: the queue clear at the end of a successful turn drops only files that
\* the turn uploaded, and once the upload loop has ended the files uploaded
\* are exactly the files that were queued at submission.
C28_ClearsOnlyConsumed ==
    [][/\ StreamEnd =>
             (QueuedFiles(uploadedFiles) \ QueuedFiles(uploadedFiles')) \subseteq UploadedFiles(turn)
       /\ turn'.pc \in {"count", "open", "stream"} =>
             UploadedFiles(turn') = QueuedFiles(turn'.files0)]_vars

\* a step of the call in flight: it passes an await or takes a chunk
TurnStep == InFlight /\ (turn'.pc # turn.pc \/ turn'.chunks # turn.chunks)

\* C29: once resetSession or saveApiKey has emptied the conversation context
\* under a turn in flight, no step of that turn appends to or writes into the
\* transcript, and the turn does not fail on the missing context.
C29_StaleTurnHarmless ==
    [][(chatSession = NoSession /\ TurnStep) =>
          /\ messages' = messages
          /\ turn'.error # nullSessionError]_vars

\* C30: the in-memory key is non-empty exactly when the API client exists, so
\* no submit that passed the key guard has failed on a missing client.
C30_KeyIffClient ==
    /\ (API_KEY # <<>>) <=> (genAI # NoClient)
    /\ turn.error # nullClientError

\* a turn has failed on an invalid key: key and client were dropped together,
\* the stored key was kept
C30_Witness ==
    /\ turn.outcome = "error"
    /\ IsCredentialError(turn.error)
    /\ turn.pushed # <<>>
    /\ localStorage # <<>>
    /\ API_KEY = <<>>
    /\ genAI = NoClient

====
